---- MODULE Spec2Model ----
(***************************************************************************)
(* A model of app.py (Excel -> SEO meta generator).                        *)
(*                                                                         *)
(* Text is a sequence of one-character strings.  Python's str.lower(),     *)
(* str.upper(), str.strip(), str.split() and the regular expressions are   *)
(* modelled by what they do on the characters of the model alphabets.      *)
(* The Turkish letters of the two description templates are written with   *)
(* their ASCII base letters, one character for one character, so every     *)
(* length is the source's.                                                 *)
(***************************************************************************)
EXTENDS Naturals, Integers, Sequences, FiniteSets

VARIABLES
    pc,       \* position of the running handler / function call
    arg,      \* the upload, or the arguments of the function being called
    ret,      \* its return value
    USE_LLM,  \* app.py:30, process-wide flag
    df0,      \* the DataFrame as read from the uploaded file (kept for reference)
    df,       \* the DataFrame being filled
    idx,      \* the row the loop of upload_file is at
    calls     \* log of the calls made by the loop: <<row, function>>

vars == <<pc, arg, ret, USE_LLM, df0, df, idx, calls>>

\* ---------------------------------------------------------------- bounds

MaxTextLen == 5
MaxBudget == 3

\* ------------------------------------------------------- text primitives

None == [k |-> "none", v |-> <<>>]

\* Python's whitespace, restricted to the model alphabet.
WS == {" ", "\t"}

Digits == {"0", "1", "2", "3", "4", "5", "6", "7", "8", "9"}

Lower == {"a", "b", "c", "d", "e", "f", "g", "h", "i", "j", "k", "l", "m",
          "n", "o", "p", "q", "r", "s", "t", "u", "v", "w", "x", "y", "z"}

Upper == {"A", "B", "C", "D", "E", "F", "G", "H", "I", "J", "K", "L", "M",
          "N", "O", "P", "Q", "R", "S", "T", "U", "V", "W", "X", "Y", "Z"}

Texts(A, n) == UNION {[1..k -> A] : k \in 0..n}

Min(S) == CHOOSE x \in S : \A y \in S : x <= y
Max(S) == 0 - Min({0 - x : x \in S})

Take(s, n) == SubSeq(s, 1, IF n < Len(s) THEN n ELSE Len(s))

Rep(c, n) == [i \in 1..n |-> c]

\* str.strip(): leading and trailing whitespace removed.
strip(s) ==
    LET keep == {i \in 1..Len(s) : s[i] \notin WS}
    IN  IF keep = {} THEN <<>> ELSE SubSeq(s, Min(keep), Max(keep))

\* str.rstrip(chars)
rstrip(s, chars) ==
    LET keep == {i \in 1..Len(s) : s[i] \notin chars}
    IN  IF keep = {} THEN <<>> ELSE SubSeq(s, 1, Max(keep))

\* str.rfind(c), 0-based, -1 when absent.
rfind(s, c) ==
    LET at == {i \in 1..Len(s) : s[i] = c}
    IN  IF at = {} THEN -1 ELSE Max(at) - 1

\* needle in hay (Python's substring test)
Contains(hay, needle) ==
    \E i \in 0..(Len(hay) - Len(needle)) :
        \A j \in 1..Len(needle) : hay[i + j] = needle[j]

\* -------------------------------------------------------- trim_to_limit

TrimStrip == {",", ".", ";", ":", "-", " "}

\* A plausible slip: the search window is one character too wide.
trim_to_limit_wide(text, max_chars) ==
    LET t == strip(text)
        f == rfind(Take(t, max_chars + 2), " ")
        cut_off_index == IF f = -1 THEN max_chars + 1 ELSE f
    IN  IF Len(t) <= max_chars THEN t
        ELSE rstrip(Take(t, cut_off_index), TrimStrip)

\* A plausible slip: always cut at the budget, whatever the word boundaries.
trim_to_limit_hard(text, max_chars) ==
    LET t == strip(text)
    IN  IF Len(t) <= max_chars THEN t
        ELSE rstrip(Take(t, max_chars), TrimStrip)

trim_to_limit(text, max_chars) ==
    LET t == strip(text)
        f == rfind(Take(t, max_chars + 1), " ")
        cut_off_index == IF f = -1 THEN max_chars ELSE f
    IN  IF Len(t) <= max_chars THEN t
        ELSE rstrip(Take(t, cut_off_index), TrimStrip)

\* ------------------------------------------- the idle part of the state

NoRows ==
    /\ USE_LLM = FALSE
    /\ df0 = <<>>
    /\ df = <<>>
    /\ idx = 0
    /\ calls = <<>>

RowsIdle == UNCHANGED <<USE_LLM, df0, df, idx, calls>>

\* ------------------------------------------------ SpecTrim: trim_to_limit

TrimAlphabet == {"a", "b", " ", ",", "\t"}

InitTrim ==
    /\ pc = "call"
    /\ arg \in [text : Texts(TrimAlphabet, MaxTextLen), max_chars : 1..MaxBudget]
    /\ ret = None
    /\ NoRows

CallTrim ==
    /\ pc = "call"
    /\ ret' = trim_to_limit(arg.text, arg.max_chars)
    /\ pc' = "ret"
    /\ UNCHANGED arg
    /\ RowsIdle

NextTrim == CallTrim

SpecTrim == InitTrim /\ [][NextTrim]_vars

\* C4: trim_to_limit returns at most max_chars characters, and returns the
\* whitespace-trimmed input itself when that already fits the budget.
C4_TrimWithinBudget ==
    pc = "ret" =>
        /\ Len(ret) <= arg.max_chars
        /\ (Len(strip(arg.text)) <= arg.max_chars => ret = strip(arg.text))

C4_Witness ==
    /\ pc = "ret"
    /\ Len(strip(arg.text)) > arg.max_chars
    /\ Len(ret) = arg.max_chars

\* The last space among the first max_chars + 1 characters of t (1-based), 0 if none.
LastSpaceInWindow(t, max_chars) ==
    LET at == {i \in 1..Len(t) : i <= max_chars + 1 /\ t[i] = " "}
    IN  IF at = {} THEN 0 ELSE Max(at)

\* r is s with only characters of TrimStrip taken off its end.
IsStrippedPrefix(r, s) ==
    /\ Len(r) <= Len(s)
    /\ \A i \in 1..Len(r) : r[i] = s[i]
    /\ \A i \in (Len(r) + 1)..Len(s) : s[i] \in TrimStrip
    /\ (Len(r) > 0 => r[Len(r)] \notin TrimStrip)

\* C5: an over-long input with a space in its first max_chars + 1 characters
\* is cut at the last such space (the character after the cut prefix is that
\* space), then only trailing , . ; : - and spaces are removed; without such a
\* space the cut is exactly at max_chars.
C5_TrimAtWordBoundary ==
    pc = "ret" /\ Len(strip(arg.text)) > arg.max_chars =>
        LET t == strip(arg.text)
            p == LastSpaceInWindow(t, arg.max_chars)
        IN  IF p > 0
            THEN t[p] = " " /\ IsStrippedPrefix(ret, SubSeq(t, 1, p - 1))
            ELSE IsStrippedPrefix(ret, SubSeq(t, 1, arg.max_chars))

C5_Witness ==
    /\ pc = "ret"
    /\ Len(strip(arg.text)) > arg.max_chars
    /\ LastSpaceInWindow(strip(arg.text), arg.max_chars) > 1
    /\ Len(ret) < LastSpaceInWindow(strip(arg.text), arg.max_chars) - 1
    /\ Len(ret) > 0

\* ----------------------------------------------------------- clean_html

\* TAG_RE = <[^>]+> : a tag starts at a "<" that is not directly followed by
\* ">" and ends at the first ">" after it.  0 when no tag starts at s[1].
TagEnd(s) ==
    LET close == {j \in 2..Len(s) : s[j] = ">"}
    IN  IF s # <<>> /\ s[1] = "<" /\ close # {} /\ Min(close) > 2
        THEN Min(close) ELSE 0

RECURSIVE TAG_RE_sub(_)
\* TAG_RE.sub("", text): every leftmost, non-overlapping tag removed.
TAG_RE_sub(s) ==
    IF s = <<>> THEN <<>>
    ELSE IF TagEnd(s) > 0 THEN TAG_RE_sub(SubSeq(s, TagEnd(s) + 1, Len(s)))
    ELSE <<s[1]>> \o TAG_RE_sub(Tail(s))

\* html.entities.html5, restricted to the names spelled with the letters of
\* the model alphabet (l t g a m p b).  A decoded character outside ASCII is
\* written as its code point, one element of the text.
Html5Names ==
    {<<"a", "m", "a", "l", "g", ";">>,
     <<"a", "m", "p">>,
     <<"a", "m", "p", ";">>,
     <<"a", "p", ";">>,
     <<"g", "a", "m", "m", "a", ";">>,
     <<"g", "a", "p", ";">>,
     <<"g", "g", ";">>,
     <<"g", "g", "g", ";">>,
     <<"g", "l", ";">>,
     <<"g", "l", "a", ";">>,
     <<"g", "t">>,
     <<"g", "t", ";">>,
     <<"l", "a", "p", ";">>,
     <<"l", "a", "t", ";">>,
     <<"l", "g", ";">>,
     <<"l", "l", ";">>,
     <<"l", "t">>,
     <<"l", "t", ";">>,
     <<"m", "a", "l", "t", ";">>,
     <<"m", "a", "p", ";">>,
     <<"m", "p", ";">>,
     <<"p", "m", ";">>}

html5(name) ==
    CASE name = <<"a", "m", "a", "l", "g", ";">> -> "U+2A3F"
      [] name = <<"a", "m", "p">> -> "&"
      [] name = <<"a", "m", "p", ";">> -> "&"
      [] name = <<"a", "p", ";">> -> "U+2248"
      [] name = <<"g", "a", "m", "m", "a", ";">> -> "U+03B3"
      [] name = <<"g", "a", "p", ";">> -> "U+2A86"
      [] name = <<"g", "g", ";">> -> "U+226B"
      [] name = <<"g", "g", "g", ";">> -> "U+22D9"
      [] name = <<"g", "l", ";">> -> "U+2277"
      [] name = <<"g", "l", "a", ";">> -> "U+2AA5"
      [] name = <<"g", "t">> -> ">"
      [] name = <<"g", "t", ";">> -> ">"
      [] name = <<"l", "a", "p", ";">> -> "U+2A85"
      [] name = <<"l", "a", "t", ";">> -> "U+2AAB"
      [] name = <<"l", "g", ";">> -> "U+2276"
      [] name = <<"l", "l", ";">> -> "U+226A"
      [] name = <<"l", "t">> -> "<"
      [] name = <<"l", "t", ";">> -> "<"
      [] name = <<"m", "a", "l", "t", ";">> -> "U+2720"
      [] name = <<"m", "a", "p", ";">> -> "U+21A6"
      [] name = <<"m", "p", ";">> -> "U+2213"
      [] name = <<"p", "m", ";">> -> "U+00B1"

\* The characters that end an entity name in html.unescape's pattern
\* &(#[0-9]+;?|#[xX][0-9a-fA-F]+;?|[^\t\n\f <&#;]{1,32};?), on the model alphabet.
NameStop == {"\t", " ", "<", "&", ";"}

\* Length of the reference matched after the "&" at s[1]: the name (1..32
\* characters) and an optional ";".  0 when the pattern does not match.
CharrefLen(s) ==
    LET stops == {j \in 2..Len(s) : s[j] \in NameStop}
        runEnd == IF stops = {} THEN Len(s) ELSE Min(stops) - 1
        n == IF runEnd - 1 > 32 THEN 32 ELSE runEnd - 1
    IN  IF n < 1 THEN 0
        ELSE IF n + 2 <= Len(s) /\ s[n + 2] = ";" THEN n + 1 ELSE n

\* html._replace_charref for a named reference r (the text after the "&").
replace_charref(r) ==
    LET pre == {x \in 2..(Len(r) - 1) : SubSeq(r, 1, x) \in Html5Names}
    IN  IF r \in Html5Names THEN <<html5(r)>>
        ELSE IF pre # {}
        THEN <<html5(SubSeq(r, 1, Max(pre)))>> \o SubSeq(r, Max(pre) + 1, Len(r))
        ELSE <<"&">> \o r

RECURSIVE unescape(_)
\* html.unescape: each character reference replaced once, left to right.
unescape(s) ==
    IF s = <<>> THEN <<>>
    ELSE IF s[1] = "&" /\ CharrefLen(s) > 0
    THEN replace_charref(SubSeq(s, 2, 1 + CharrefLen(s)))
             \o unescape(SubSeq(s, 2 + CharrefLen(s), Len(s)))
    ELSE <<s[1]>> \o unescape(Tail(s))

RECURSIVE CollapseWS(_)
CollapseWS(s) ==
    IF s = <<>> THEN <<>>
    ELSE IF s[1] \in WS
    THEN (IF Len(s) >= 2 /\ s[2] \in WS THEN <<>> ELSE <<" ">>) \o CollapseWS(Tail(s))
    ELSE <<s[1]>> \o CollapseWS(Tail(s))

\* " ".join(text.split()): the words of the text, one space between them.
join_split(s) == CollapseWS(strip(s))

\* A plausible slip: whitespace is normalized before the tags are removed.
clean_html_collapse_first(raw_html) ==
    IF raw_html = <<>> THEN <<>>
    ELSE strip(unescape(TAG_RE_sub(join_split(raw_html))))

clean_html(raw_html) ==
    IF raw_html = <<>> THEN <<>>
    ELSE strip(join_split(unescape(TAG_RE_sub(raw_html))))

\* ------------------------------------------------- SpecClean: clean_html

MaxTokens == 3

CleanTokens ==
    {<<"<">>, <<">">>, <<"&">>, <<";">>, <<"b">>, <<" ">>, <<"\t">>,
     <<"<", "b", ">">>, <<"l", "t", ";">>, <<"b", " ">>, <<" ", "b">>,
     <<"&", "l", "t", ";">>, <<"&", "g", "t", ";">>, <<"&", "a", "m", "p", ";">>}

RECURSIVE Concat(_)
Concat(ss) == IF ss = <<>> THEN <<>> ELSE Head(ss) \o Concat(Tail(ss))

CleanInputs == {Concat(ts) : ts \in Texts(CleanTokens, MaxTokens)}

InitClean ==
    /\ pc = "call"
    /\ arg \in [raw_html : CleanInputs]
    /\ ret = None
    /\ NoRows

\* clean_html(raw)
CallClean ==
    /\ pc = "call"
    /\ ret' = clean_html(arg.raw_html)
    /\ pc' = "ret"
    /\ UNCHANGED arg
    /\ RowsIdle

\* clean_html applied to its own output
CallCleanAgain ==
    /\ pc = "ret"
    /\ ret' = clean_html(ret)
    /\ pc' = "ret2"
    /\ UNCHANGED arg
    /\ RowsIdle

NextClean == CallClean \/ CallCleanAgain

SpecClean == InitClean /\ [][NextClean]_vars

\* C6 as claimed: clean_html(clean_html(s)) = clean_html(s) for every s.
C6_Idempotent ==
    pc = "ret2" => ret = clean_html(arg.raw_html)

\* A tag-shaped substring <...> occurs in t.
HasTag(t) ==
    \E i \in 1..Len(t) :
        /\ t[i] = "<"
        /\ i < Len(t) /\ t[i + 1] # ">"
        /\ \E j \in (i + 2)..Len(t) : t[j] = ">"

\* A character reference that html.unescape decodes occurs in t.
HasCharref(t) ==
    \E i \in 1..Len(t) :
        LET s == SubSeq(t, i, Len(t))
        IN  /\ t[i] = "&"
            /\ CharrefLen(s) > 0
            /\ replace_charref(SubSeq(s, 2, 1 + CharrefLen(s)))
                   # SubSeq(s, 1, 1 + CharrefLen(s))

\* C6 amended: the output of clean_html is a fixed point of clean_html
\* whenever that output holds no tag-shaped substring and no character
\* reference (decoding may create either: "&lt;b&gt;" gives "<b>").
C6_IdempotentOnPlainOutput ==
    pc = "ret2" /\ ~HasTag(clean_html(arg.raw_html))
                /\ ~HasCharref(clean_html(arg.raw_html))
        => ret = clean_html(arg.raw_html)

C6_Witness ==
    /\ pc = "ret2"
    /\ ~HasTag(clean_html(arg.raw_html))
    /\ ~HasCharref(clean_html(arg.raw_html))
    /\ HasTag(arg.raw_html)
    /\ HasCharref(arg.raw_html)
    /\ \E i \in 1..Len(ret) : ret[i] = "&"
    /\ \E i \in 1..Len(arg.raw_html) : arg.raw_html[i] \in WS

\* ------------------------------------------------- constants and helpers

TRIM_TITLE_MAX == 60
TRIM_DESC_MAX == 155

LowerSeq == <<"a", "b", "c", "d", "e", "f", "g", "h", "i", "j", "k", "l", "m", "n", "o", "p", "q", "r", "s", "t", "u", "v", "w", "x", "y", "z">>
UpperSeq == <<"A", "B", "C", "D", "E", "F", "G", "H", "I", "J", "K", "L", "M", "N", "O", "P", "Q", "R", "S", "T", "U", "V", "W", "X", "Y", "Z">>

IndexIn(seq, c) == CHOOSE i \in 1..Len(seq) : seq[i] = c

\* str.lower() and str.upper(), on the model alphabet (ASCII letters).
lower(s) == [i \in 1..Len(s) |-> IF s[i] \in Upper THEN LowerSeq[IndexIn(UpperSeq, s[i])] ELSE s[i]]
upper(s) == [i \in 1..Len(s) |-> IF s[i] \in Lower THEN UpperSeq[IndexIn(LowerSeq, s[i])] ELSE s[i]]

RECURSIVE JoinWith(_, _)
\* sep.join(parts)
JoinWith(parts, sep) ==
    IF parts = <<>> THEN <<>>
    ELSE IF Len(parts) = 1 THEN parts[1]
    ELSE parts[1] \o sep \o JoinWith(Tail(parts), sep)

IsNonBlank(p) == strip(p) # <<>>

\* pick_product_type(main_cat, cat, sub_cat): the first of sub_cat, cat,
\* main_cat that is non-empty and at least 3 characters long once stripped.
pick_product_type(main_cat, cat, sub_cat) ==
    LET order == <<sub_cat, cat, main_cat>>
        ok == {i \in 1..3 : order[i] # <<>> /\ Len(strip(order[i])) >= 3}
    IN  IF ok = {} THEN <<>> ELSE lower(strip(order[Min(ok)]))

\* smart_join(*parts)
smart_join(parts) ==
    JoinWith([i \in 1..Len(SelectSeq(parts, IsNonBlank)) |->
                 strip(SelectSeq(parts, IsNonBlank)[i])], <<" ">>)

\* sentence_case(text)
sentence_case(text) ==
    LET t == strip(text)
    IN  IF t = <<>> THEN t ELSE upper(<<t[1]>>) \o Tail(t)

\* ------------- the attribute pattern \b(\d{2,4}\s?(gb|ml|l|cm|mm|w))\b

WordCh == Digits \cup Lower \cup Upper \cup {"_"}

Units2 == {<<"g", "b">>, <<"m", "l">>, <<"c", "m">>, <<"m", "m">>}
Units1 == {"l", "w"}

\* Length of the unit (gb|ml|l|cm|mm|w) matched at s[k], 0 if none.
UnitLen(s, k) ==
    IF k + 1 <= Len(s) /\ SubSeq(s, k, k + 1) \in Units2 THEN 2
    ELSE IF k <= Len(s) /\ s[k] \in Units1 THEN 1
    ELSE 0

\* Number of digits in a row from s[i] on.
DigitRun(s, i) ==
    LET nd == {j \in i..Len(s) : s[j] \notin Digits}
    IN  (IF nd = {} THEN Len(s) + 1 ELSE Min(nd)) - i

\* Length of the match of the pattern starting at s[i], 0 if none.
AttrLenAt(s, i) ==
    LET d == DigitRun(s, i)
        j == i + d
        w == IF j <= Len(s) /\ s[j] \in WS THEN 1 ELSE 0
        u == UnitLen(s, j + w)
        e == j + w + u
    IN  IF /\ (i = 1 \/ s[i - 1] \notin WordCh)
           /\ d >= 2 /\ d <= 4
           /\ u > 0
           /\ (e > Len(s) \/ s[e] \notin WordCh)
        THEN d + w + u ELSE 0

\* re.search(pattern, s): group(0) of the leftmost match, None without one.
attr_search(s) ==
    LET at == {i \in 1..Len(s) : AttrLenAt(s, i) > 0}
    IN  IF at = {} THEN None
        ELSE SubSeq(s, Min(at), Min(at) + AttrLenAt(s, Min(at)) - 1)

\* --------------------------------------------------------- generate_title

generate_title(brand, label, main_cat, cat, sub_cat) ==
    LET product_type == pick_product_type(main_cat, cat, sub_cat)
        base == smart_join(<<brand, label, product_type>>)
        title == trim_to_limit(base, TRIM_TITLE_MAX)
        m == attr_search(lower(label))
    IN  IF Len(title) < 48 /\ product_type # <<>>
           /\ m # None /\ ~Contains(lower(title), m)
        THEN trim_to_limit(smart_join(<<brand, label, m, product_type>>), TRIM_TITLE_MAX)
        ELSE title

\* --------------------------------------------------- generate_description

SentenceEnd == {".", "!", "?"}

RECURSIVE FirstSentence(_)
\* [s.strip() for s in re.split(r"[\.!\?]+", text) if s.strip()][0], or the
\* empty text when the list is empty.
FirstSentence(s) ==
    LET ends == {i \in 1..Len(s) : s[i] \in SentenceEnd}
    IN  IF ends = {} THEN strip(s)
        ELSE IF strip(SubSeq(s, 1, Min(ends) - 1)) # <<>>
        THEN strip(SubSeq(s, 1, Min(ends) - 1))
        ELSE FirstSentence(SubSeq(s, Min(ends) + 1, Len(s)))

TemplateWithType == <<".", " ", "G", "u", "n", "l", "u", "k", " ", "k", "u", "l", "l", "a", "n", "i", "m", "a", " ", "u", "y", "g", "u", "n", ",", " ", "n", "e", "t", " ", "v", "e", " ", "p", "r", "a", "t", "i", "k", " ", "b", "i", "r", " ", "s", "e", "c", "i", "m", "d", "i", "r", ".">>

TemplateNoType == <<" ", "i", "l", "e", " ", "i", "h", "t", "i", "y", "a", "c", "i", "n", "i", "z", "i", " ", "k", "a", "r", "s", "i", "l", "a", "y", "a", "n", " ", "p", "r", "a", "t", "i", "k", " ", "b", "i", "r", " ", "c", "o", "z", "u", "m", "d", "u", "r", ".">>

generate_description(clean_details, brand, label, category_name) ==
    LET cand == trim_to_limit(sentence_case(FirstSentence(clean_details)), TRIM_DESC_MAX)
        product_type == strip(lower(category_name))
        base == smart_join(<<brand, label, product_type>>)
        sent == IF product_type # <<>>
                THEN sentence_case(base) \o TemplateWithType
                ELSE sentence_case(smart_join(<<brand, label>>)) \o TemplateNoType
    IN  IF clean_details # <<>> /\ FirstSentence(clean_details) # <<>> /\ Len(cand) >= 120
        THEN cand
        ELSE trim_to_limit(sent, TRIM_DESC_MAX)

\* ------------------------------------------------------ generate_keywords

\* Steps 1 and 2: the brand/label phrase(s), then the product type unless the
\* phrases collected so far contain it.
kws_brand_type(brand, label, main_cat, cat, sub_cat) ==
    LET kws1 == IF brand # <<>> /\ label # <<>> THEN << brand \o <<" ">> \o label >>
                ELSE (IF brand # <<>> THEN <<brand>> ELSE <<>>)
                         \o (IF label # <<>> THEN <<label>> ELSE <<>>)
        product_type == pick_product_type(main_cat, cat, sub_cat)
    IN  IF product_type # <<>> /\ ~Contains(lower(JoinWith(kws1, <<" ">>)), product_type)
        THEN Append(kws1, product_type) ELSE kws1

\* A plausible slip: the attribute is compared with whole phrases, not looked
\* for inside them.
kws_collect_exact(brand, label, main_cat, cat, sub_cat) ==
    LET kws == kws_brand_type(brand, label, main_cat, cat, sub_cat)
        val == attr_search(lower(label))
    IN  IF val # None /\ ~(\E i \in 1..Len(kws) : lower(kws[i]) = val)
        THEN Append(kws, val) ELSE kws

\* Step 3: the attribute found in the label, unless a collected phrase
\* contains it.  The list kws before kws[:3].
kws_collect(brand, label, main_cat, cat, sub_cat) ==
    LET kws == kws_brand_type(brand, label, main_cat, cat, sub_cat)
        val == attr_search(lower(label))
    IN  IF val # None /\ ~(\E i \in 1..Len(kws) : Contains(lower(kws[i]), val))
        THEN Append(kws, val) ELSE kws

generate_keywords(brand, label, main_cat, cat, sub_cat) ==
    JoinWith(Take(kws_collect(brand, label, main_cat, cat, sub_cat), 3), <<",", " ">>)

\* ------------------------------------------ SpecKw: generate_keywords

MaxLabelTokens == 3

LabelTokens ==
    {<<"1", "2">>, <<"1", "2", "8">>, <<"1">>, <<"g", "b">>, <<"G", "B">>,
     <<"l">>, <<" ">>, <<"x">>, <<",">>}

KwLabels == {Concat(ts) : ts \in Texts(LabelTokens, MaxLabelTokens)}

KwBrands == {<<>>, <<"A">>, <<"a", ",", "b">>, <<"a", ",", "b", ",", "c", ",", "d">>}

KwMainCats == {<<>>, <<"T", "e", "l">>}
KwCats == {<<>>, <<"a", "b">>}
KwSubCats == {<<>>, <<"1", "2", " ", "G", "B">>, <<"x", ",", "y">>}

InitKw ==
    /\ pc = "call"
    /\ arg \in [brand : KwBrands, label : KwLabels, main_cat : KwMainCats,
                cat : KwCats, sub_cat : KwSubCats]
    /\ ret = None
    /\ NoRows

CallKeywords ==
    /\ pc = "call"
    /\ ret' = generate_keywords(arg.brand, arg.label, arg.main_cat, arg.cat, arg.sub_cat)
    /\ pc' = "ret"
    /\ UNCHANGED arg
    /\ RowsIdle

NextKw == CallKeywords

SpecKw == InitKw /\ [][NextKw]_vars

\* Number of phrases str.split(",") gives.
CommaPhrases(s) == Cardinality({i \in 1..Len(s) : s[i] = ","}) + 1

\* C7: split on commas, the string generate_keywords returns has at most 3
\* phrases, whatever the brand, label and categories.
C7_AtMostThreePhrases ==
    pc = "ret" => CommaPhrases(ret) <= 3

MaxWords == 16

\* n words of w letters c, one space between them.
MkWords(c, n, w) == JoinWith([i \in 1..n |-> Rep(c, w)], <<" ">>)

DescDetails ==
    {<<>>} \cup {MkWords("a", n, w) \o <<".", " ", "b">> : n \in 1..MaxWords, w \in {1, 9, 40}}

DescBrands == {<<>>, <<"A", "c", "m", "e">>}
DescLabels == {<<>>, <<"x", " ", "1", "2", " ", "g", "b">>, Rep("L", 160)}
DescCategories == {<<>>, <<" ", " ">>, <<"a", "b">>, <<"T", "e", "l", "e", "f", "o", "n">>}

InitDesc ==
    /\ pc = "call"
    /\ arg \in [clean_details : DescDetails, brand : DescBrands, label : DescLabels,
                category_name : DescCategories]
    /\ ret = None
    /\ NoRows

CallDescription ==
    /\ pc = "call"
    /\ ret' = generate_description(arg.clean_details, arg.brand, arg.label, arg.category_name)
    /\ pc' = "ret"
    /\ UNCHANGED arg
    /\ RowsIdle

NextDesc == CallDescription

SpecDesc == InitDesc /\ [][NextDesc]_vars

\* C9: generate_description returns at most 155 characters, and returns the
\* empty string when brand, label and category name are empty and there is
\* no detail text.
C9_DescriptionBoundedAndEmpty ==
    pc = "ret" =>
        /\ Len(ret) <= 155
        /\ (arg.clean_details = <<>> /\ arg.brand = <<>> /\ arg.label = <<>>
                /\ arg.category_name = <<>>
            => ret = <<>>)

\* --------------------------------------------------- llm_generate_meta

\* str(x) of a JSON value: a string as it is, null as "None", a missing
\* title or description as the default "".
StrOf(cell) ==
    IF cell.k = "str" THEN cell.v[1]
    ELSE IF cell.k = "null" THEN <<"N", "o", "n", "e">>
    ELSE <<>>

\* ", ".join([str(x).strip() for x in kws if str(x).strip()])
JoinKeywords(items) ==
    JoinWith([i \in 1..Len(SelectSeq(items, IsNonBlank)) |->
                 strip(SelectSeq(items, IsNonBlank)[i])], <<",", " ">>)

\* The keywords string of lines 211-215: a list (or the default []) is joined
\* and cut to 200 characters, anything else is str(kws).strip().
KeywordsOf(cell) ==
    IF cell.k \in {"list", "missing"} THEN Take(JoinKeywords(cell.v), 200)
    ELSE strip(StrOf(cell))

\* llm_generate_meta, given the flag and what the service answers: resp.kind
\* is "error" (the import, the client or the call raises), "malformed"
\* (json.loads raises), "nondict" (data.get raises) or "json" (a JSON object).
llm_generate_meta(use_llm, resp) ==
    IF ~use_llm THEN None
    ELSE IF resp.kind # "json" THEN None
    ELSE LET title == trim_to_limit(strip(StrOf(resp.title)), TRIM_TITLE_MAX)
             desc == trim_to_limit(strip(StrOf(resp.description)), TRIM_DESC_MAX)
             keywords == KeywordsOf(resp.keywords)
         IN  IF Len(title) < 45 \/ Len(desc) < 120 \/ keywords = <<>>
             THEN None
             ELSE [k |-> "dict", v |-> <<title, desc, keywords>>]

\* ------------------------------------------- SpecLlm: llm_generate_meta

MaxKwItems == 5

Str(t) == [k |-> "str", v |-> <<t>>]
Missing == [k |-> "missing", v |-> <<>>]
Null == [k |-> "null", v |-> <<>>]
List(items) == [k |-> "list", v |-> items]

NotJson(kind) == [kind |-> kind, title |-> Missing, description |-> Missing, keywords |-> Missing]

LlmTitles ==
    {Missing, Null} \cup {Str(Rep("t", n)) : n \in {0, 44, 45, 60, 61}}
        \cup {Str(MkWords("t", n, 9)) : n \in 5..7}

LlmDescs ==
    {Missing} \cup {Str(Rep("d", n)) : n \in {119, 120, 155, 156}}
        \cup {Str(MkWords("d", n, 9)) : n \in {12, 16}}

LlmKeywords ==
    {Missing, Null, List(<< <<" ">> >>)}
        \cup {List([i \in 1..n |-> <<" ">> \o Rep("k", 50)]) : n \in 0..MaxKwItems}
        \cup {Str(Rep("k", n)) : n \in {0, 1, 200, 201}}
        \cup {Str(<<" ", "k", ",", "k", " ">>)}

LlmResponses ==
    {NotJson("error"), NotJson("malformed"), NotJson("nondict")}
        \cup [kind : {"json"}, title : LlmTitles, description : LlmDescs,
              keywords : LlmKeywords]

InitLlm ==
    /\ pc = "call"
    /\ arg \in [USE_LLM : BOOLEAN, resp : LlmResponses]
    /\ ret = None
    /\ NoRows

CallLlm ==
    /\ pc = "call"
    /\ ret' = llm_generate_meta(arg.USE_LLM, arg.resp)
    /\ pc' = "ret"
    /\ UNCHANGED arg
    /\ RowsIdle

NextLlm == CallLlm

SpecLlm == InitLlm /\ [][NextLlm]_vars

\* C8: every dict llm_generate_meta returns has 45..60 title characters,
\* 120..155 description characters and a non-empty keywords string of at
\* most 200 characters, for an array and for a scalar keywords value.
C8_UsableResultWithinBounds ==
    pc = "ret" /\ ret # None =>
        /\ Len(ret.v[1]) >= 45 /\ Len(ret.v[1]) <= 60
        /\ Len(ret.v[2]) >= 120 /\ Len(ret.v[2]) <= 155
        /\ Len(ret.v[3]) >= 1 /\ Len(ret.v[3]) <= 200

\* ------------------------------------------------------------ upload_file

\* DataFrame cells: a missing value, a text or a number (v is str(cell)).
NaN == [k |-> "nan", v |-> <<>>]
TextCell(t) == [k |-> "str", v |-> t]
NumCell(t) == [k |-> "num", v |-> t]

isna(cell) == cell.k = "nan"

required_columns == {"label", "brand", "mainCategory", "rootProductStockCode"}
meta_columns == {"title", "description", "keywords"}
details_names == <<"details", "detail", "description", "aciklama", "urun_detayi", "urunDetayi">>
AllColumns == required_columns \cup meta_columns \cup {"category", "subCategory", "details"}

\* Lines 279-283: the first details-like column of the file, "" without one.
details_col(columns) ==
    LET found == {i \in 1..Len(details_names) : details_names[i] \in columns}
    IN  IF found = {} THEN "" ELSE details_names[Min(found)]

\* Lines 286-288: a metadata column the file lacks is created, filled with "".
prepare(rows, columns) ==
    [i \in 1..Len(rows) |->
        [c \in AllColumns |->
            IF c \in columns THEN rows[i][c]
            ELSE IF c \in meta_columns THEN TextCell(<<>>)
            ELSE NaN]]

\* A plausible slip: only a missing stock code is skipped.
not_root_only_nan(row) ==
    isna(row["rootProductStockCode"])

\* Line 294: pd.isna(code) or code != 0
not_root(row) ==
    \/ isna(row["rootProductStockCode"])
    \/ ~(row["rootProductStockCode"].k = "num" /\ row["rootProductStockCode"].v = <<"0">>)

\* str(row[c]) if not pd.isna(row[c]) else ""
current(row, c) == IF isna(row[c]) THEN <<>> ELSE row[c].v

\* A plausible slip: only the title is looked at.
has_meta_title_only(row) ==
    current(row, "title") # <<>>

\* Lines 300-303: current_title or current_desc or current_keywords
has_meta(row) ==
    \/ current(row, "title") # <<>>
    \/ current(row, "description") # <<>>
    \/ current(row, "keywords") # <<>>

optional(row, c, columns) == IF c \in columns THEN current(row, c) ELSE <<>>

\* Lines 313-316
details_text(row, columns) ==
    IF details_col(columns) = "" THEN <<>>
    ELSE clean_html(current(row, details_col(columns)))

\* Lines 330-333: the three rule-based generators on the row's fields.
rule_based(row, columns) ==
    LET brand == current(row, "brand")
        label == current(row, "label")
        main_cat == current(row, "mainCategory")
        cat == optional(row, "category", columns)
        sub_cat == optional(row, "subCategory", columns)
        category_name == IF sub_cat # <<>> THEN sub_cat
                         ELSE IF cat # <<>> THEN cat ELSE main_cat
    IN  << generate_title(brand, label, main_cat, cat, sub_cat),
           generate_description(details_text(row, columns), brand, label, category_name),
           generate_keywords(brand, label, main_cat, cat, sub_cat) >>

\* Lines 319-326: new_title, new_desc, new_keywords after the LLM attempt.
from_llm(llm_out) == IF llm_out # None THEN llm_out.v ELSE << <<>>, <<>>, <<>> >>

\* Line 329
needs_fallback(new) == new[1] = <<>> \/ new[2] = <<>> \/ new[3] = <<>>

\* A plausible slip: lines 331-333 fall out of the if, so the description and
\* the keywords are always the rule-based ones.
new_meta_dedented(llm_out, rb) ==
    LET new == from_llm(llm_out)
    IN  << IF needs_fallback(new) THEN rb[1] ELSE new[1], rb[2], rb[3] >>

\* Lines 318-333: what is written to the row; rb is what the three
\* generators return for it.
new_meta(llm_out, rb) ==
    IF needs_fallback(from_llm(llm_out)) THEN rb ELSE from_llm(llm_out)

\* --------------------------------------------------- Spec: upload_file

MaxRows == 2

RowCodes == {NaN, NumCell(<<"0">>), NumCell(<<"1">>), TextCell(<<"0">>)}

RowMetas ==
    { <<NaN, NaN, NaN>>,
      <<TextCell(<<>>), TextCell(<<>>), TextCell(<<>>)>>,
      <<TextCell(<<"T">>), NaN, NaN>>,
      <<NaN, TextCell(<<"D">>), TextCell(<<>>)>>,
      <<TextCell(<<>>), NaN, TextCell(<<"K">>)>> }

EmptyContent ==
    [brand |-> NaN, label |-> NaN, mainCategory |-> NaN, category |-> NaN,
     subCategory |-> NaN, details |-> NaN]

RichContent ==
     [brand |-> TextCell(<<"A", "c", "m", "e">>), label |-> TextCell(<<"S", " ", "1", "2", " ", "G", "B">>),
       mainCategory |-> TextCell(<<"T", "e", "l">>), category |-> NaN,
       subCategory |-> TextCell(<<"a", "b", " ", "t", "e", "l">>),
       details |-> TextCell(<<"<", "p", ">", "A", " ", "&", "a", "m", "p", ";", " ", "b", ".", "<", "/", "p", ">", " ", "c">>)]

MkRow(code, meta, content) ==
    [c \in AllColumns |->
        CASE c = "rootProductStockCode" -> code
          [] c = "title" -> meta[1]
          [] c = "description" -> meta[2]
          [] c = "keywords" -> meta[3]
          [] OTHER -> content[c]]

RowSet ==
    {MkRow(code, meta, RichContent) : code \in RowCodes, meta \in RowMetas}
        \cup {MkRow(NumCell(<<"0">>), <<NaN, NaN, NaN>>, EmptyContent)}

ColumnSets ==
    { AllColumns,
      required_columns,
      required_columns \cup meta_columns }

\* What the service answers to the call made for a row.
RowLlmResponses ==
    { NotJson("error"), NotJson("malformed"),
      [kind |-> "json", title |-> Str(Rep("t", 45)), description |-> Str(Rep("d", 120)),
       keywords |-> List(<< <<"k", "1">>, <<"k", "2">> >>)],
      [kind |-> "json", title |-> Str(Rep("t", 44)), description |-> Str(Rep("d", 120)),
       keywords |-> List(<< <<"k", "1">>, <<"k", "2">> >>)] }

Uploads ==
    [xlsx : {FALSE}, readable : {TRUE}, columns : {AllColumns}, rows : {<<>>}]
    \cup [xlsx : {TRUE}, readable : {FALSE}, columns : {AllColumns}, rows : {<<>>}]
    \cup [xlsx : {TRUE}, readable : {TRUE},
          columns : {AllColumns \ {"brand"}, meta_columns}, rows : {<<>>}]
    \cup [xlsx : {TRUE}, readable : {TRUE}, columns : ColumnSets,
          rows : Texts(RowSet, MaxRows)]

Init ==
    /\ pc = "start"
    /\ arg \in Uploads
    /\ USE_LLM \in BOOLEAN
    /\ ret = None
    /\ df0 = <<>>
    /\ df = <<>>
    /\ idx = 0
    /\ calls = <<>>

Error(message, names) == [k |-> "error", v |-> <<message, names>>]

\* Lines 245-251: not an .xlsx file name
RejectFileType ==
    /\ pc = "start"
    /\ ~arg.xlsx
    /\ pc' = "error"
    /\ ret' = Error("not xlsx", {})
    /\ UNCHANGED <<arg, USE_LLM, df0, df, idx, calls>>

\* Lines 259-267: pd.read_excel raises
RejectUnreadable ==
    /\ pc = "start"
    /\ arg.xlsx /\ ~arg.readable
    /\ pc' = "error"
    /\ ret' = Error("unreadable", {})
    /\ UNCHANGED <<arg, USE_LLM, df0, df, idx, calls>>

\* Lines 270-276: required columns are missing
RejectMissingColumns ==
    /\ pc = "start"
    /\ arg.xlsx /\ arg.readable
    /\ required_columns \ arg.columns # {}
    /\ pc' = "error"
    /\ ret' = Error("missing columns", required_columns \ arg.columns)
    /\ UNCHANGED <<arg, USE_LLM, df0, df, idx, calls>>

\* Lines 259-288: the file is read and the metadata columns are prepared.
ReadFile ==
    /\ pc = "start"
    /\ arg.xlsx /\ arg.readable
    /\ required_columns \ arg.columns = {}
    /\ df0' = prepare(arg.rows, arg.columns)
    /\ df' = prepare(arg.rows, arg.columns)
    /\ idx' = 1
    /\ pc' = "rows"
    /\ UNCHANGED <<arg, ret, USE_LLM, calls>>

\* Lines 293-297: the row is not a root product.
SkipNotRoot ==
    /\ pc = "rows" /\ idx <= Len(df)
    /\ not_root(df[idx])
    /\ idx' = idx + 1
    /\ UNCHANGED <<pc, arg, ret, USE_LLM, df0, df, calls>>

\* Lines 299-304: one of the three metadata cells is filled.
SkipFilled ==
    /\ pc = "rows" /\ idx <= Len(df)
    /\ ~not_root(df[idx])
    /\ has_meta(df[idx])
    /\ idx' = idx + 1
    /\ UNCHANGED <<pc, arg, ret, USE_LLM, df0, df, calls>>

Call(fn, answer, out) == [row |-> idx, fn |-> fn, answer |-> answer, out |-> out]

\* Lines 306-338: the metadata of the row is generated and written.
ProcessRow ==
    /\ pc = "rows" /\ idx <= Len(df)
    /\ ~not_root(df[idx])
    /\ ~has_meta(df[idx])
    /\ \E resp \in RowLlmResponses, rb \in {rule_based(df[idx], arg.columns)} :
        LET llm_out == llm_generate_meta(USE_LLM, resp)
            new == new_meta(llm_out, rb)
        IN  /\ df' = [df EXCEPT ![idx]["title"] = TextCell(new[1]),
                                ![idx]["description"] = TextCell(new[2]),
                                ![idx]["keywords"] = TextCell(new[3])]
            /\ calls' = calls
                 \o << Call("llm_generate_meta",
                            IF USE_LLM THEN resp.kind ELSE "not asked", llm_out) >>
                 \o (IF needs_fallback(from_llm(llm_out))
                     THEN << Call("generate_title", "", TextCell(rb[1])),
                             Call("generate_description", "", TextCell(rb[2])),
                             Call("generate_keywords", "", TextCell(rb[3])) >>
                     ELSE <<>>)
    /\ idx' = idx + 1
    /\ UNCHANGED <<pc, arg, ret, USE_LLM, df0>>

\* Lines 341-351: the filled frame is returned as the download.
WriteOutput ==
    /\ pc = "rows" /\ idx > Len(df)
    /\ pc' = "done"
    /\ ret' = [k |-> "file", v |-> df]
    /\ UNCHANGED <<arg, USE_LLM, df0, df, idx, calls>>

Next ==
    \/ RejectFileType
    \/ RejectUnreadable
    \/ RejectMissingColumns
    \/ ReadFile
    \/ SkipNotRoot
    \/ SkipFilled
    \/ ProcessRow
    \/ WriteOutput

Spec == Init /\ [][Next]_vars

\* ---- properties of the row loop

Meta(row) == <<row["title"], row["description"], row["keywords"]>>

CallsFor(i) == SelectSeq(calls, LAMBDA c : c.row = i)

NumericZero(cell) == cell.k = "num" /\ cell.v = <<"0">>

EmptyCell(cell) == cell.k = "nan" \/ cell.v = <<>>

\* C1: a row whose rootProductStockCode is missing or anything but the number
\* 0 keeps its title, description and keywords, and neither llm_generate_meta
\* nor a generator is called for it.
C1_NonRootRowsUntouched ==
    \A i \in 1..Len(df) :
        ~NumericZero(df0[i]["rootProductStockCode"])
            => Meta(df[i]) = Meta(df0[i]) /\ CallsFor(i) = <<>>

C1_Witness ==
    /\ pc = "done"
    /\ Len(df) = 2
    /\ df0[1]["rootProductStockCode"] = NumCell(<<"1">>)
    /\ \A c \in meta_columns : EmptyCell(df0[1][c])
    /\ Meta(df[1]) = Meta(df0[1])
    /\ df0[2]["rootProductStockCode"] = NumCell(<<"0">>)
    /\ CallsFor(2) # <<>>

\* C2: a root row with a non-empty title, description or keywords keeps all
\* three cells, the empty ones too, and nothing is generated for it.
C2_FilledRowsUntouched ==
    \A i \in 1..Len(df) :
        /\ NumericZero(df0[i]["rootProductStockCode"])
        /\ \E c \in meta_columns : ~EmptyCell(df0[i][c])
        => Meta(df[i]) = Meta(df0[i]) /\ CallsFor(i) = <<>>

C2_Witness ==
    /\ pc = "done"
    /\ \E i \in 1..Len(df) :
        /\ NumericZero(df0[i]["rootProductStockCode"])
        /\ EmptyCell(df0[i]["title"])
        /\ EmptyCell(df0[i]["description"])
        /\ ~EmptyCell(df0[i]["keywords"])
        /\ Meta(df[i]) = Meta(df0[i])
        /\ df0[i]["brand"] # NaN

TextsOf(cells) == [j \in 1..Len(cells) |-> cells[j].v]

\* C3: the three values written to a processed row are the three fields of
\* the dict llm_generate_meta returned, or the outputs of the three
\* generators; when llm_generate_meta returns None (flag off, the call
\* raises, malformed JSON, quality gate) they are the generators' outputs,
\* and the loop goes on to the next row.
C3_OneSourcePerRow ==
    \A i \in 1..Len(df) :
        CallsFor(i) # <<>> =>
            LET cs == CallsFor(i)
                llm_out == cs[1].out
            IN  /\ cs[1].fn = "llm_generate_meta"
                /\ i < idx
                /\ pc \in {"rows", "done"}
                /\ cs[1].answer \in {"not asked", "error", "malformed", "nondict"}
                       => llm_out = None
                /\ IF llm_out # None
                   THEN /\ Len(cs) = 1
                        /\ TextsOf(Meta(df[i])) = llm_out.v
                   ELSE /\ Len(cs) = 4
                        /\ <<cs[2].fn, cs[3].fn, cs[4].fn>>
                             = <<"generate_title", "generate_description", "generate_keywords">>
                        /\ Meta(df[i]) = <<cs[2].out, cs[3].out, cs[4].out>>

C3_Witness ==
    /\ pc = "done"
    /\ Len(df) = 2
    /\ CallsFor(1) # <<>> /\ CallsFor(1)[1].answer = "error"
    /\ TextsOf(Meta(df[1])) = rule_based(df0[1], arg.columns)
    /\ df[1]["title"].v # <<>>
    /\ CallsFor(2) # <<>> /\ CallsFor(2)[1].out # None
    /\ TextsOf(Meta(df[2])) = CallsFor(2)[1].out.v

====
